---- MODULE Spec2Model ----
(***************************************************************************)
(* N3 sleep scoring (src/Sleepapnean3.py): score_n3_epochs cuts a          *)
(* recording into epochs and scores each with score_n3_epoch, which gates  *)
(* the signal (check_signal_quality), band-pass filters it, finds the zero *)
(* crossings of the filtered signal and scans them for slow waves.         *)
(*                                                                         *)
(* Numbers.  Samples are integers.  Python's floats are modelled by exact  *)
(* rationals: a duration in seconds is kept as a number of samples over    *)
(* fs, swa_percent as a fraction [num, den] with den > 0 (den = 0 is the   *)
(* float infinity).  A comparison of such a fraction with a threshold is   *)
(* the comparison the code makes on the float it computed.                 *)
(*                                                                         *)
(* firwin and filtfilt are scipy functions, not code of the repository:    *)
(* the filter step either raises or returns some sequence of the input's   *)
(* length; `levels' is the bounded set its samples are drawn from.         *)
(***************************************************************************)
EXTENDS Integers, Sequences, FiniteSets, TLC

\* ---------------------------------------------------------------- bounds
MaxLen == 10        \* longest recording handed to score_n3_epochs
MaxEpochLen == 6    \* longest signal handed directly to score_n3_epoch
MaxSmallLen == 4    \* longest signal drawn from all sequences over SigValues

\* sampling rates: <= 0 are the invalid ones; at fs = 4 the shortest window
\* (2 samples) lasts exactly 0.5 s, at fs = 5 it lasts 0.4 s
FsValues == {-1, 0, 1, 2, 4, 5}
\* epoch durations in seconds: 0 is degenerate; 5 s at fs = 2 makes one
\* 2-sample wave exactly 20 % of the epoch
DurValues == {0, 1, 5}
\* samples of the input signal
SigValues == {0, 1, 3}
\* samples of the filtered signal of a recording's epochs: 35 - (-40) is
\* exactly the 75 uV threshold
FiltValues == {-40, 0, 35}
\* samples of the filtered signal of a single epoch, one set per call:
\* 0..80 is tall enough but has one sign, -40..30 has both signs but is not
\* tall enough
WaveLevels == {{-40, 0, 80}, {-40, 30, 80}}

\* ------------------------------------------------------- program constants
AmplitudeThreshold == 75    \* peak_to_peak >= 75
N3Threshold == 20           \* swa_percent >= 20.0
SnrThreshold == 5           \* snr > 5.0

\* ---------------------------------------------------------------- helpers
SeqsOfLen(S, n) == [1..n -> S]

Ramp(n) == [j \in 1..n |-> j]
Zeros(n) == [j \in 1..n |-> 0]

RECURSIVE SumSeq(_)
SumSeq(s) == IF s = <<>> THEN 0 ELSE Head(s) + SumSeq(Tail(s))

Abs(x) == IF x < 0 THEN -x ELSE x
Sign(x) == IF x > 0 THEN 1 ELSE IF x < 0 THEN -1 ELSE 0

MaxOf(s) == CHOOSE x \in {s[j] : j \in DOMAIN s} : \A y \in {s[j] : j \in DOMAIN s} : y <= x
MinOf(s) == CHOOSE x \in {s[j] : j \in DOMAIN s} : \A y \in {s[j] : j \in DOMAIN s} : x <= y

\* np.diff
Diff(s) == [j \in 1..(Len(s) - 1) |-> s[j + 1] - s[j]]

\* np.var(s) = VarNum(s) / Len(s)^2
VarNum(s) == Len(s) * SumSeq([j \in DOMAIN s |-> s[j] * s[j]]) - SumSeq(s) * SumSeq(s)

\* Python slice s[a:b] for 0 <= a <= b (b clipped to the length)
Slice(s, a, b) == SubSeq(s, a + 1, IF b > Len(s) THEN Len(s) ELSE b)

\* ------------------------------------------------- check_signal_quality
check_signal_quality(signal, rate) ==
    IF Len(signal) < 2 THEN FALSE
    ELSE IF MaxOf([j \in DOMAIN signal |-> Abs(signal[j])]) = 0 THEN FALSE
    ELSE LET n == Len(signal)
             m == n - 1
             signal_power == VarNum(signal)        \* over n * n
             noise_power == VarNum(Diff(signal))   \* over m * m
         IN IF noise_power = 0
            THEN 10 * signal_power > n * n                       \* signal_power > 0.1
            ELSE signal_power * m * m > SnrThreshold * noise_power * n * n  \* snr > 5.0

\* line 64: the branch that returns 0.0 without filtering
PoorSignalInverted(signal, rate) == check_signal_quality(signal, rate)
PoorSignal(signal, rate) == ~check_signal_quality(signal, rate)

\* ------------------------------------------------------- zero crossings
\* np.where(np.diff(np.sign(f)))[0]: the 0-based indices j with
\* sign(f[j]) # sign(f[j+1]), ascending
RECURSIVE CrossingsFrom(_, _)
CrossingsFrom(f, j) ==
    IF j > Len(f) - 2 THEN <<>>
    ELSE IF Sign(f[j + 2]) # Sign(f[j + 1])
         THEN <<j>> \o CrossingsFrom(f, j + 1)
         ELSE CrossingsFrom(f, j + 1)

ZeroCrossings(f) == CrossingsFrom(f, 0)

\* ------------------------------------------------------------ wave scan
\* line 81: the loop condition
LoopCondOffByOne(cursor, zc) == cursor < Len(zc) - 1
LoopCond(cursor, zc) == cursor < Len(zc) - 2

\* lines 82-83: the bounding sample indices of the candidate at the cursor
StartIdxPrevious(cursor, zc) == zc[IF cursor > 0 THEN cursor ELSE 1]
StartIdx(cursor, zc) == zc[cursor + 1]
EndIdxAdjacent(cursor, zc) == zc[cursor + 2]
EndIdx(cursor, zc) == zc[cursor + 3]

\* line 92
IsTallEnoughStrict(wave) == MaxOf(wave) - MinOf(wave) > AmplitudeThreshold
IsTallEnough(wave) == MaxOf(wave) - MinOf(wave) >= AmplitudeThreshold

\* lines 95-96: 0.5 <= (end_idx - start_idx) / fs <= 2.0
IsSlowEnoughStrict(d, rate) ==
    IF rate > 0 THEN rate < 2 * d /\ d < 2 * rate ELSE FALSE
IsSlowEnough(d, rate) ==
    IF rate > 0 THEN rate <= 2 * d /\ d <= 2 * rate
    ELSE FALSE   \* d > 0 and rate < 0: the duration is negative

\* line 99
HasBothSigns(wave) ==
    /\ \E j \in DOMAIN wave : wave[j] > 0
    /\ \E j \in DOMAIN wave : wave[j] < 0

\* lines 104, 106: how far the cursor moves
AdvanceAlwaysOne(accepted) == 1
AdvanceStuck(accepted) == IF accepted THEN 2 ELSE 0
Advance(accepted) == IF accepted THEN 2 ELSE 1

\* ----------------------------------------------------- score_n3_epochs
\* line 128: Python's floor division, spe # 0
FloorDiv(a, b) ==
    IF b > 0 THEN a \div b
    ELSE -(((a + (-b) - 1)) \div (-b))   \* a >= 0, b < 0: -ceil(a / -b)

\* lines 132-134
EpochSliceShifted(signal, e, spe) == Slice(signal, e * spe + 1, e * spe + 1 + spe)
EpochSlice(signal, e, spe) == Slice(signal, e * spe, e * spe + spe)

\* line 140
StageStrict(swa) == IF swa.num > N3Threshold * swa.den THEN "N3" ELSE "Not N3"
Stage(swa) == IF swa.num >= N3Threshold * swa.den THEN "N3" ELSE "Not N3"

\* line 109: (total_swa_time / epoch_duration) * 100, total in samples
PercentNoRate(total, rate, dur) ==
    IF dur = 0 THEN [num |-> 1, den |-> 0]
    ELSE IF dur > 0 THEN [num |-> 100 * total, den |-> dur]
    ELSE [num |-> -100 * total, den |-> -dur]
Percent(total, rate, dur) ==
    IF dur = 0 THEN [num |-> 1, den |-> 0]    \* total > 0, a numpy float: inf
    ELSE IF rate * dur > 0 THEN [num |-> 100 * total, den |-> rate * dur]
    ELSE [num |-> -100 * total, den |-> -(rate * dur)]

Zero == [num |-> 0, den |-> 1]

\* ------------------------------------------------------------------ state
VARIABLES
    entry,             \* which function the caller invoked
    eeg_signal, fs, epoch_duration,   \* its arguments
    pc,                \* position in the code
    samples_per_epoch, num_epochs, epoch, results,   \* score_n3_epochs locals
    epoch_signal,      \* the signal score_n3_epoch was called with
    eeg_filtered, zero_crossings, i, total_swa_time, \* score_n3_epoch locals
    swa_percent,       \* value returned by the last score_n3_epoch call
    levels,            \* the values the library's filter output may take
    filter_reached,    \* history: the current call got to firwin/filtfilt
    examined           \* history: the windows of the current scan, in order

vars == <<entry, eeg_signal, fs, epoch_duration, pc, samples_per_epoch,
          num_epochs, epoch, results, epoch_signal, eeg_filtered,
          zero_crossings, i, total_swa_time, swa_percent, levels,
          filter_reached, examined>>

args == <<entry, eeg_signal, fs, epoch_duration, levels>>
outer == <<samples_per_epoch, num_epochs, epoch, results>>
scan == <<eeg_filtered, zero_crossings, i, total_swa_time>>

\* recordings: every short sequence, and ramps and flat lines of any length
\* (a ramp passes the quality gate at every length >= 2, a flat line never)
Signals(maxlen) ==
    UNION {SeqsOfLen(SigValues, n) : n \in 0..MaxSmallLen}
    \cup {Ramp(n) : n \in 0..maxlen} \cup {Zeros(n) : n \in 0..maxlen}

NoLocals ==
    /\ eeg_filtered = <<>>
    /\ zero_crossings = <<>>
    /\ i = 0
    /\ total_swa_time = 0
    /\ swa_percent = Zero
    /\ filter_reached = FALSE
    /\ examined = <<>>

\* a call score_n3_epochs(eeg_signal, fs, epoch_duration)
Init ==
    /\ entry = "epochs"
    /\ eeg_signal \in Signals(MaxLen)
    /\ fs \in FsValues
    /\ epoch_duration \in DurValues
    /\ levels = FiltValues
    /\ pc = "segment"
    /\ samples_per_epoch = 0
    /\ num_epochs = 0
    /\ epoch = 0
    /\ results = <<>>
    /\ epoch_signal = <<>>
    /\ NoLocals

\* a call score_n3_epoch(eeg_signal, fs, epoch_duration)
InitEpoch ==
    /\ entry = "epoch"
    /\ eeg_signal \in Signals(MaxEpochLen)
    /\ fs \in FsValues
    /\ epoch_duration \in DurValues
    /\ levels \in WaveLevels
    /\ pc = "gate"
    /\ samples_per_epoch = 0
    /\ num_epochs = 0
    /\ epoch = 0
    /\ results = <<>>
    /\ epoch_signal = eeg_signal
    /\ NoLocals

\* ---------------------------------------------------------------- actions
\* lines 127-129; epoch_duration * fs = 0 makes // raise ZeroDivisionError
Segment ==
    /\ pc = "segment"
    /\ samples_per_epoch' = epoch_duration * fs
    /\ IF epoch_duration * fs = 0
       THEN /\ pc' = "error"
            /\ num_epochs' = num_epochs
       ELSE /\ pc' = "loop"
            /\ num_epochs' = FloorDiv(Len(eeg_signal), epoch_duration * fs)
    /\ UNCHANGED <<args, epoch, results, epoch_signal, scan, swa_percent,
                   filter_reached, examined>>

\* lines 131-137: the next epoch is sliced and score_n3_epoch is called
CallEpoch ==
    /\ pc = "loop"
    /\ epoch < num_epochs
    /\ epoch_signal' = EpochSlice(eeg_signal, epoch, samples_per_epoch)
    /\ pc' = "gate"
    /\ UNCHANGED <<args, outer, scan, swa_percent, filter_reached, examined>>

\* line 149
ReturnResults ==
    /\ pc = "loop"
    /\ epoch >= num_epochs
    /\ pc' = "done"
    /\ UNCHANGED <<args, outer, epoch_signal, scan, swa_percent,
                   filter_reached, examined>>

\* where score_n3_epoch returns to
Back == IF entry = "epochs" THEN "append" ELSE "done"

\* lines 63-65
Gate ==
    /\ pc = "gate"
    /\ filter_reached' = FALSE
    /\ examined' = <<>>
    /\ IF PoorSignal(epoch_signal, fs)
       THEN /\ swa_percent' = Zero
            /\ pc' = Back
       ELSE /\ swa_percent' = swa_percent
            /\ pc' = "filter"
    /\ UNCHANGED <<args, outer, epoch_signal, scan>>

\* lines 68-71: 0.5 / nyquist raises ZeroDivisionError when fs = 0; otherwise
\* the library either raises or returns a sequence of the same length
Filter ==
    /\ pc = "filter"
    /\ filter_reached' = TRUE
    /\ \/ /\ pc' = "error"
          /\ eeg_filtered' = eeg_filtered
       \/ /\ fs # 0
          /\ eeg_filtered' \in SeqsOfLen(levels, Len(epoch_signal))
          /\ pc' = "crossings"
    /\ UNCHANGED <<args, outer, epoch_signal, zero_crossings, i,
                   total_swa_time, swa_percent, examined>>

\* lines 75-80
Crossings ==
    /\ pc = "crossings"
    /\ zero_crossings' = ZeroCrossings(eeg_filtered)
    /\ total_swa_time' = 0
    /\ i' = 0
    /\ pc' = "scan"
    /\ UNCHANGED <<args, outer, epoch_signal, eeg_filtered, swa_percent,
                   filter_reached, examined>>

\* lines 81-106: one iteration of the while loop
ScanStep ==
    /\ pc = "scan"
    /\ LoopCond(i, zero_crossings)
    /\ LET start_idx == StartIdx(i, zero_crossings)
           end_idx == EndIdx(i, zero_crossings)
           candidate_wave == Slice(eeg_filtered, start_idx, end_idx)
       IN IF Len(candidate_wave) < 2
          THEN /\ i' = i + 1
               /\ total_swa_time' = total_swa_time
               /\ examined' = Append(examined,
                      [cursor |-> i, start |-> start_idx, end |-> end_idx,
                       accepted |-> FALSE, short |-> TRUE])
          ELSE LET ok == /\ IsTallEnough(candidate_wave)
                         /\ IsSlowEnough(end_idx - start_idx, fs)
                         /\ HasBothSigns(candidate_wave)
               IN /\ total_swa_time' =
                        IF ok THEN total_swa_time + (end_idx - start_idx)
                        ELSE total_swa_time
                  /\ i' = i + Advance(ok)
                  /\ examined' = Append(examined,
                         [cursor |-> i, start |-> start_idx, end |-> end_idx,
                          accepted |-> ok, short |-> FALSE])
    /\ pc' = "scan"
    /\ UNCHANGED <<args, outer, epoch_signal, eeg_filtered, zero_crossings,
                   swa_percent, filter_reached>>

\* lines 81 (condition false), 109-110.  With epoch_duration = 0 the
\* division raises ZeroDivisionError while total_swa_time is still the
\* Python float 0.0; once a wave was added it is a numpy float and the
\* quotient is inf
ScanExit ==
    /\ pc = "scan"
    /\ ~LoopCond(i, zero_crossings)
    /\ IF epoch_duration = 0 /\ total_swa_time = 0
       THEN /\ pc' = "error"
            /\ UNCHANGED <<swa_percent, scan>>
       ELSE /\ swa_percent' = Percent(total_swa_time, fs, epoch_duration)
            /\ pc' = Back
            /\ UNCHANGED scan
    /\ UNCHANGED <<args, outer, epoch_signal, filter_reached, examined>>

\* lines 139-147; the locals of the finished call are gone
AppendResult ==
    /\ pc = "append"
    /\ results' = Append(results,
           [epoch |-> epoch, stage |-> Stage(swa_percent),
            swa_percent |-> swa_percent])
    /\ epoch' = epoch + 1
    /\ pc' = "loop"
    /\ eeg_filtered' = <<>>
    /\ zero_crossings' = <<>>
    /\ i' = 0
    /\ total_swa_time' = 0
    /\ UNCHANGED <<args, samples_per_epoch, num_epochs, epoch_signal,
                   swa_percent, filter_reached, examined>>

NextEpoch == Gate \/ Filter \/ Crossings \/ ScanStep \/ ScanExit

Next == Segment \/ CallEpoch \/ ReturnResults \/ AppendResult \/ NextEpoch

\* score_n3_epochs on a bounded recording
Spec == Init /\ [][Next]_vars

\* score_n3_epoch on a bounded signal; the code is sequential, so a step
\* that can be taken is taken
EpochSpec == InitEpoch /\ [][NextEpoch]_vars /\ WF_vars(NextEpoch)

\* ------------------------------------------------------------------ claims
InCall == pc \in {"gate", "filter", "crossings", "scan", "append"}

\* C1: every record returned by score_n3_epochs has stage "N3" exactly when
\* its swa_percent is at least 20.0 (20.0 itself is "N3"), else "Not N3"
C1_StageIffThreshold ==
    \A k \in DOMAIN results :
        /\ results[k].stage \in {"N3", "Not N3"}
        /\ results[k].stage = "N3"
              <=> results[k].swa_percent.num * 5 >= results[k].swa_percent.den * 100

\* a record whose swa_percent is exactly 20 %
C1_Witness ==
    \E k \in DOMAIN results :
        /\ results[k].swa_percent.num * 5 = results[k].swa_percent.den * 100
        /\ results[k].stage = "N3"

\* C2: with samples_per_epoch > 0 and len = k * samples_per_epoch + r,
\* 0 <= r < samples_per_epoch, exactly k records are returned, record j has
\* epoch index j, and call j is handed exactly the samples
\* [j * spe, (j + 1) * spe) of the recording
C2_Segmentation ==
    (entry = "epochs" /\ epoch_duration * fs > 0) =>
        LET spe == epoch_duration * fs
            k == Len(eeg_signal) \div spe
        IN /\ InCall =>
                /\ epoch < k
                /\ epoch_signal = [j \in 1..spe |-> eeg_signal[epoch * spe + j]]
           /\ \A j \in DOMAIN results : results[j].epoch = j - 1
           /\ Len(results) <= k
           /\ pc = "done" => Len(results) = k

\* three records returned from a recording with a trailing remainder
C2_Witness ==
    /\ pc = "done"
    /\ Len(results) = 3
    /\ Len(eeg_signal) = 3 * samples_per_epoch + 1
    /\ samples_per_epoch > 1

\* C3: fs <= 0 or an empty signal never ends in an ordinary return (a 0.0
\* score or a result list): both functions end in an error
C3_FailFast ==
    (fs <= 0 \/ Len(eeg_signal) = 0) => pc # "done"

\* the signals that are all zeros or shorter than 2 samples
Degenerate(signal) == Len(signal) < 2 \/ \A j \in DOMAIN signal : signal[j] = 0

\* C4: for an all-zero or shorter-than-2 signal score_n3_epoch returns 0.0
\* without reaching the filter, and the record of such an epoch has
\* swa_percent 0.0 and stage "Not N3"
C4_DegenerateIsZero ==
    /\ Degenerate(epoch_signal) =>
          /\ pc \notin {"filter", "crossings", "scan"}
          /\ (pc = "append" \/ (pc = "done" /\ entry = "epoch")) =>
                /\ ~filter_reached
                /\ swa_percent.num = 0
    /\ entry = "epochs" =>
          \A k \in DOMAIN results :
             Degenerate(SubSeq(eeg_signal, (k - 1) * samples_per_epoch + 1,
                               k * samples_per_epoch)) =>
                /\ results[k].swa_percent.num = 0
                /\ results[k].stage = "Not N3"

\* the record of a flat second epoch of two or more samples
C4_Witness ==
    /\ entry = "epochs"
    /\ pc = "loop"
    /\ Len(results) >= 2
    /\ samples_per_epoch >= 2
    /\ \A j \in 1..samples_per_epoch : eeg_signal[samples_per_epoch + j] = 0
    /\ \E j \in 1..samples_per_epoch : eeg_signal[j] # 0
    /\ ~filter_reached

\* C5: every record of score_n3_epochs has swa_percent in [0, 100]: the
\* scan's total is >= 0 and at most epoch_duration seconds
C5_PercentInRange ==
    entry = "epochs" =>
        /\ \A k \in DOMAIN results :
              /\ results[k].swa_percent.num >= 0
              /\ results[k].swa_percent.num <= 100 * results[k].swa_percent.den
        /\ pc \in {"scan", "append"} =>
              /\ total_swa_time >= 0
              /\ total_swa_time <= epoch_duration * fs
              /\ swa_percent.num >= 0
              /\ swa_percent.num <= 100 * swa_percent.den

\* an epoch scored 80 %
C5_Witness ==
    \E k \in DOMAIN results :
        results[k].swa_percent.num * 5 >= 400 * results[k].swa_percent.den

\* the samples eeg_filtered[a:b] as a set of values
WindowValues(a, b) == {eeg_filtered[j] : j \in (a + 1)..b}
Largest(S) == CHOOSE x \in S : \A y \in S : y <= x
Smallest(S) == CHOOSE x \in S : \A y \in S : x <= y

\* the window at the cursor passes the three criteria of the claim
PassesCriteria ==
    LET a == zero_crossings[i + 1]
        b == zero_crossings[i + 3]
        W == WindowValues(a, b)
    IN /\ Largest(W) - Smallest(W) >= 75
       /\ fs > 0 /\ 2 * (b - a) >= fs /\ b - a <= 2 * fs
       /\ \E x \in W : x > 0
       /\ \E x \in W : x < 0

\* C6: a scan step looks at crossing[i]..crossing[i+2]; if the window passes
\* the three criteria the total grows by the window's duration and the
\* cursor moves by 2, otherwise the cursor moves by 1 and the total stays
C6_StepRule ==
    [][(pc = "scan" /\ pc' = "scan") =>
          /\ examined' = Append(examined, examined'[Len(examined')])
          /\ examined'[Len(examined')].start = zero_crossings[i + 1]
          /\ examined'[Len(examined')].end = zero_crossings[i + 3]
          /\ IF PassesCriteria
             THEN /\ total_swa_time' =
                        total_swa_time + (zero_crossings[i + 3] - zero_crossings[i + 1])
                  /\ i' = i + 2
             ELSE /\ total_swa_time' = total_swa_time
                  /\ i' = i + 1]_vars

\* a scan that accepted one window and rejected another for its duration
\* alone (tall enough, both signs)
C6_Witness ==
    /\ pc = "scan"
    /\ \E a, b \in DOMAIN examined :
          /\ examined[a].accepted
          /\ ~examined[b].accepted
          /\ LET W == WindowValues(examined[b].start, examined[b].end)
             IN /\ Largest(W) - Smallest(W) >= 75
                /\ \E x \in W : x > 0
                /\ \E x \in W : x < 0

\* C7 as stated: no crossing of an accepted wave (crossing[i], [i+1], [i+2])
\* bounds a window examined later in the scan
C7_NoCrossingReused ==
    pc = "scan" => \A a, b \in DOMAIN examined :
        (a < b /\ examined[a].accepted) =>
            {examined[b].start, examined[b].end}
              \cap {zero_crossings[examined[a].cursor + 1],
                    zero_crossings[examined[a].cursor + 2],
                    zero_crossings[examined[a].cursor + 3]} = {}

\* C7 amended: crossing[i] and crossing[i+1] of an accepted wave bound no
\* later window and crossing[i+2] ends no later window; crossing[i+2] is the
\* start of the window examined next
C7_OnlyEndReusedAsStart ==
    pc = "scan" => \A a, b \in DOMAIN examined :
        (a < b /\ examined[a].accepted) =>
            /\ {examined[b].start, examined[b].end}
                 \cap {zero_crossings[examined[a].cursor + 1],
                       zero_crossings[examined[a].cursor + 2]} = {}
            /\ examined[b].end # zero_crossings[examined[a].cursor + 3]
            /\ b = a + 1 => examined[b].start = zero_crossings[examined[a].cursor + 3]

\* an accepted wave with two windows examined after it
C7_Witness ==
    pc = "scan" /\ \E a \in DOMAIN examined : examined[a].accepted /\ a + 2 <= Len(examined)

\* C8 as stated, its bound on the iterations: at most len(zero_crossings) - 2
C8_AtMostLenMinusTwo ==
    pc = "scan" => Len(examined) <= Len(zero_crossings) - 2

Finished == pc \in {"done", "error"}

\* C8 amended: the scan terminates; the cursor strictly increases on every
\* iteration, there are at most max(0, len(zero_crossings) - 2) iterations,
\* the loop is left exactly when fewer than 2 crossings remain ahead of the
\* cursor, and crossing[i+2] is never read past the end
C8_ScanTerminates ==
    /\ [](pc = "scan" =>
             /\ Len(examined) <= i
             /\ Len(examined) <=
                   IF Len(zero_crossings) > 2 THEN Len(zero_crossings) - 2 ELSE 0)
    /\ [][(pc = "scan" /\ pc' = "scan") =>
             /\ i' > i
             /\ Len(examined') = Len(examined) + 1
             /\ i + 3 <= Len(zero_crossings)]_vars
    /\ [][(pc = "scan" /\ pc' # "scan") => i + 3 > Len(zero_crossings)]_vars
    /\ <>Finished

\* a scan that ran three iterations
C8_Witness == pc = "scan" /\ Len(examined) = 3

\* the samples added to the total so far
RECURSIVE AcceptedSamples(_)
AcceptedSamples(ex) ==
    IF ex = <<>> THEN 0
    ELSE (IF Head(ex).accepted THEN Head(ex).end - Head(ex).start ELSE 0)
         + AcceptedSamples(Tail(ex))

\* C9: the windows added to the total in one scan do not overlap (they share
\* at most a boundary index), so the total is at most the last crossing
\* index minus the first
C9_AcceptedDisjoint ==
    pc = "scan" =>
        /\ \A a, b \in DOMAIN examined :
              (a < b /\ examined[a].accepted /\ examined[b].accepted) =>
                  examined[a].end <= examined[b].start
        /\ total_swa_time = AcceptedSamples(examined)
        /\ total_swa_time <=
              IF zero_crossings = <<>> THEN 0
              ELSE zero_crossings[Len(zero_crossings)] - zero_crossings[1]

\* two accepted windows with a rejected retry between them
C9_Witness ==
    \E a, b, c \in DOMAIN examined :
        /\ a < b /\ b < c
        /\ examined[a].accepted /\ ~examined[b].accepted /\ examined[c].accepted

\* C10: the crossing indices are strictly increasing within 0..len-2, so
\* every candidate window has at least 2 samples and the short-window
\* branch is never taken
C10_NoShortWindow ==
    /\ \A k \in DOMAIN examined :
          ~examined[k].short /\ examined[k].end - examined[k].start >= 2
    /\ pc = "scan" =>
          /\ \A k \in DOMAIN zero_crossings :
                zero_crossings[k] \in 0..(Len(eeg_filtered) - 2)
          /\ \A k \in 1..(Len(zero_crossings) - 1) :
                zero_crossings[k] < zero_crossings[k + 1]

\* an examined window of exactly 2 samples
C10_Witness ==
    \E k \in DOMAIN examined : examined[k].end - examined[k].start = 2

\* both entry points
AllSpec == (Init \/ InitEpoch) /\ [][Next]_vars

====
